---- MODULE Spec2Model ----
(***************************************************************************)
(* Model of the Kaleidoscope-style front end: the precedence-climbing      *)
(* parser (parser.cpp), the lowering of the AST into basic blocks          *)
(* (codegen.cpp) and the read-eval loop that hands units to the JIT.       *)
(***************************************************************************)
EXTENDS Integers, Sequences, FiniteSets, TLC

\* cur_tok          the parser's current token
\* input, closed    the tokens typed and not yet read; whether the input ended
\* pc               where the process is: in main_loop, done, or ended otherwise
\* nlines           the lines typed so far
\* BINOP_PRECEDENCE the parser's precedence table
\* FunctionProtos   the prototype registry
\* TheModule        the functions of the current module
\* NamedValues      the names bound while a body is lowered
\* TheJIT           the names the JIT holds a definition of
\* last             what the last iteration of main_loop did
\* todo             a parsed expression waiting to be lowered
VARIABLES cur_tok, input, closed, pc, nlines,
          BINOP_PRECEDENCE, FunctionProtos, TheModule, NamedValues, TheJIT,
          last, todo

vars == <<cur_tok, input, closed, pc, nlines,
          BINOP_PRECEDENCE, FunctionProtos, TheModule, NamedValues, TheJIT,
          last, todo>>

\* ------------------------------------------------------------------ bounds
\* number of lines the user types in one session
MaxLines == 3
\* branches a run of a lowered function takes before it counts as not returning
MaxSteps == 60

\* ------------------------------------------------------------------ tokens
\* A token as the lexer hands it over: its kind, and the payload the lexer
\* leaves in identifier_str / operator_name (s) or num_val (v).
Tk(k, s, v) == [k |-> k, s |-> s, v |-> v]
tok_eof == Tk("eof", "", 0)
tok_def == Tk("def", "", 0)
tok_extern == Tk("extern", "", 0)
tok_if == Tk("if", "", 0)
tok_then == Tk("then", "", 0)
tok_else == Tk("else", "", 0)
tok_for == Tk("for", "", 0)
tok_do == Tk("do", "", 0)
tok_end == Tk("end", "", 0)
tok_identifier(s) == Tk("identifier", s, 0)
tok_number(v) == Tk("number", "", v)
tok_binary(op) == Tk("binary", op, 0)
Ch(c) == Tk("char", c, 0)

\* The token at position p of the stream ts; past its end the lexer
\* returns end-of-input for ever.
Tok(ts, p) == IF p <= Len(ts) THEN ts[p] ELSE tok_eof
IsCh(t, c) == t.k = "char" /\ t.s = c

\* ------------------------------------------------------------------ AST
NumberExprAST(v) == [tag |-> "Number", Val |-> v]
VariableExprAST(n) == [tag |-> "Variable", Name |-> n]
BinaryExprAST(op, l, r) == [tag |-> "Binary", Op |-> op, LHS |-> l, RHS |-> r]
CallExprAST(c, args) == [tag |-> "Call", Callee |-> c, Args |-> args]
IfExprAST(c, t, e) == [tag |-> "If", Condition |-> c, Then |-> t, Else |-> e]
ForExpr(v, s, c, st, b) ==
  [tag |-> "For", VarName |-> v, Start |-> s, Condition |-> c, Step |-> st, Body |-> b]
PrototypeAST(n, args, isop, prec) ==
  [tag |-> "Prototype", Name |-> n, Args |-> args, is_operator |-> isop, precedence |-> prec]
FunctionAST(proto, body) == [tag |-> "Function", Proto |-> proto, Body |-> body]
nullptr == [tag |-> "nullptr"]

\* ------------------------------------------------------------------ parser
\* Every parse function returns the node (nullptr on failure), the position
\* of cur_tok when it returns, and the diagnostics it logged.
POk(node, p) == [ok |-> TRUE, node |-> node, pos |-> p, errs |-> <<>>]
log_error(msg, p) == [ok |-> FALSE, node |-> nullptr, pos |-> p, errs |-> <<msg>>]
\* a caller that logs its own message on top of a failed sub-parse
AlsoLog(r, msg) == [r EXCEPT !.errs = @ \o <<msg>>]

\* the precedence table the parser starts with
InitialPrecedence == [c \in {"<", "+", "-", "*"} |->
                        CASE c = "<" -> 10 [] c = "+" -> 20 [] c = "-" -> 20 [] c = "*" -> 40]

get_tok_precedence(bp, t) ==
  IF t.k # "char" THEN -1
  ELSE IF t.s \notin DOMAIN bp THEN -1
  ELSE IF bp[t.s] <= 0 THEN -1
  ELSE bp[t.s]

RECURSIVE parse_expression(_, _, _)
RECURSIVE parse_primary(_, _, _)
RECURSIVE parse_binop_rhs(_, _, _, _, _)
RECURSIVE parse_call_args(_, _, _, _)
RECURSIVE parse_paren_expr(_, _, _)
RECURSIVE parse_if_expr(_, _, _)
RECURSIVE parse_for_expr(_, _, _)
RECURSIVE parse_identifier_expr(_, _, _)
RECURSIVE binop_rhs_primary(_, _, _, _, _, _)
RECURSIVE binop_rhs_combine(_, _, _, _, _, _)
RECURSIVE if_expr_cond(_, _, _)
RECURSIVE for_expr_start(_, _, _, _)
RECURSIVE for_expr_condition(_, _, _, _, _)
RECURSIVE for_expr_step(_, _, _, _, _, _)
RECURSIVE call_args_next(_, _, _, _)

\* Each parse function is written as its steps: a step takes the result of the
\* sub-parse before it (V, cond, RHS, ...) and carries on from there.

parse_number_expr(bp, ts, p) == POk(NumberExprAST(Tok(ts, p).v), p + 1)

paren_expr_close(ts, V) ==
  IF ~V.ok THEN V
  ELSE IF ~IsCh(Tok(ts, V.pos), ")") THEN log_error("expected )", V.pos)
  ELSE POk(V.node, V.pos + 1)

parse_paren_expr(bp, ts, p) == paren_expr_close(ts, parse_expression(bp, ts, p + 1))

if_expr_else(cond, then, else_) ==
  IF ~else_.ok THEN else_
  ELSE POk(IfExprAST(cond.node, then.node, else_.node), else_.pos)

if_expr_then(bp, ts, cond, then) ==
  IF ~then.ok THEN then
  ELSE IF Tok(ts, then.pos) = tok_else
  THEN if_expr_else(cond, then, parse_expression(bp, ts, then.pos + 1))
  ELSE POk(IfExprAST(cond.node, then.node, NumberExprAST(0)), then.pos)

if_expr_cond(bp, ts, cond) ==
  IF ~cond.ok THEN cond
  ELSE IF Tok(ts, cond.pos) # tok_then THEN log_error("expected then", cond.pos)
  ELSE if_expr_then(bp, ts, cond, parse_expression(bp, ts, cond.pos + 1))

parse_if_expr(bp, ts, p) == if_expr_cond(bp, ts, parse_expression(bp, ts, p + 1))

for_expr_body(ts, var, start, condition, step, body) ==
  IF ~body.ok THEN AlsoLog(body, "Error parsing body in for statement.")
  ELSE IF Tok(ts, body.pos) # tok_end THEN log_error("Missing end.", body.pos)
  ELSE POk(ForExpr(var, start.node, condition.node, step.node, body.node), body.pos + 1)

for_expr_step(bp, ts, var, start, condition, step) ==
  IF ~step.ok THEN AlsoLog(step, "Error parsing step in for statement.")
  ELSE IF Tok(ts, step.pos) # tok_do THEN log_error("Expected do in for statement.", step.pos)
  ELSE for_expr_body(ts, var, start, condition, step,
                     parse_expression(bp, ts, step.pos + 1))

for_expr_condition(bp, ts, var, start, condition) ==
  IF ~condition.ok THEN AlsoLog(condition, "Error parsing condition in for statement.")
  ELSE IF ~IsCh(Tok(ts, condition.pos), ",")
  THEN log_error("Missing comma separtor in for statement after condition.", condition.pos)
  ELSE for_expr_step(bp, ts, var, start, condition,
                     parse_expression(bp, ts, condition.pos + 1))

for_expr_start(bp, ts, var, start) ==
  IF ~start.ok THEN AlsoLog(start, "Error parsing initialization in for statement.")
  ELSE IF ~IsCh(Tok(ts, start.pos), ",")
  THEN log_error("Missing comma separtor in for statement after initialization.", start.pos)
  ELSE for_expr_condition(bp, ts, var, start, parse_expression(bp, ts, start.pos + 1))

parse_for_expr(bp, ts, p) ==
  IF Tok(ts, p + 1).k # "identifier"
  THEN log_error("Expected identifier after for", p + 1)
  ELSE IF ~IsCh(Tok(ts, p + 2), "=")
  THEN log_error("Expected = after identifier for initialization.", p + 2)
  ELSE for_expr_start(bp, ts, Tok(ts, p + 1).s, parse_expression(bp, ts, p + 3))

\* the argument loop of parse_identifier_expr: p is at the start of an argument
call_args_next(bp, ts, args, arg) ==
  IF ~arg.ok THEN arg
  ELSE IF IsCh(Tok(ts, arg.pos), ")") THEN POk(Append(args, arg.node), arg.pos)
  ELSE IF ~IsCh(Tok(ts, arg.pos), ",")
  THEN log_error("Expected ) or comma in argument list", arg.pos)
  ELSE parse_call_args(bp, ts, arg.pos + 1, Append(args, arg.node))

parse_call_args(bp, ts, p, args) == call_args_next(bp, ts, args, parse_expression(bp, ts, p))

identifier_expr_call(id_name, a) ==
  IF ~a.ok THEN a ELSE POk(CallExprAST(id_name, a.node), a.pos + 1)

parse_identifier_expr(bp, ts, p) ==
  IF ~IsCh(Tok(ts, p + 1), "(") THEN POk(VariableExprAST(Tok(ts, p).s), p + 1)
  ELSE IF IsCh(Tok(ts, p + 2), ")") THEN POk(CallExprAST(Tok(ts, p).s, <<>>), p + 3)
  ELSE identifier_expr_call(Tok(ts, p).s, parse_call_args(bp, ts, p + 2, <<>>))

parse_primary(bp, ts, p) ==
  CASE Tok(ts, p).k = "identifier" -> parse_identifier_expr(bp, ts, p)
    [] Tok(ts, p).k = "number" -> parse_number_expr(bp, ts, p)
    [] IsCh(Tok(ts, p), "(") -> parse_paren_expr(bp, ts, p)
    [] Tok(ts, p).k = "if" -> parse_if_expr(bp, ts, p)
    [] Tok(ts, p).k = "for" -> parse_for_expr(bp, ts, p)
    [] OTHER -> log_error("unknown token when expecting an expression", p)

\* the comparison the wrong way round
BindsTighter_Reversed(tok_prec, next_prec) == next_prec < tok_prec

\* `if (tok_prec < next_prec)`: the operator after RHS binds tighter than the
\* pending one, which lets it take RHS as its left operand
BindsTighter(tok_prec, next_prec) == tok_prec < next_prec

binop_rhs_combine(bp, ts, expr_prec, LHS, binop, RHS) ==
  IF ~RHS.ok THEN RHS
  ELSE parse_binop_rhs(bp, ts, RHS.pos, expr_prec, BinaryExprAST(binop.s, LHS, RHS.node))

binop_rhs_primary(bp, ts, expr_prec, LHS, binop, RHS) ==
  IF ~RHS.ok THEN RHS
  ELSE binop_rhs_combine(bp, ts, expr_prec, LHS, binop,
         IF BindsTighter(get_tok_precedence(bp, binop),
                         get_tok_precedence(bp, Tok(ts, RHS.pos)))
         THEN parse_binop_rhs(bp, ts, RHS.pos, get_tok_precedence(bp, binop) + 1, RHS.node)
         ELSE RHS)

parse_binop_rhs(bp, ts, p, expr_prec, LHS) ==
  IF get_tok_precedence(bp, Tok(ts, p)) < expr_prec THEN POk(LHS, p)
  ELSE binop_rhs_primary(bp, ts, expr_prec, LHS, Tok(ts, p), parse_primary(bp, ts, p + 1))

expression_rhs(bp, ts, LHS) ==
  IF ~LHS.ok THEN LHS ELSE parse_binop_rhs(bp, ts, LHS.pos, 0, LHS.node)

parse_expression(bp, ts, p) == expression_rhs(bp, ts, parse_primary(bp, ts, p))

\* the `while (get_next_token() == tok_identifier)` loop of parse_prototype:
\* p is the position of cur_tok before the next get_next_token()
RECURSIVE proto_arg_names(_, _, _)
proto_arg_names(ts, p, names) ==
  IF Tok(ts, p + 1).k = "identifier"
  THEN proto_arg_names(ts, p + 1, Append(names, Tok(ts, p + 1).s))
  ELSE [names |-> names, pos |-> p + 1]

DefaultPrecedence == 30
MinPrecedence == 1
MaxPrecedence == 100

prototype_args(fn_name, kind, precedence, ts, a) ==
  IF ~IsCh(Tok(ts, a.pos), ")") THEN log_error("Expected ) in prototype", a.pos)
  ELSE IF kind # 0 /\ Len(a.names) # kind
  THEN log_error("Invalid number of operands for operator.", a.pos + 1)
  ELSE POk(PrototypeAST(fn_name, a.names, kind # 0, precedence), a.pos + 1)

\* after the name: q is the position of cur_tok, which must be the parenthesis
prototype_paren(fn_name, kind, precedence, ts, q) ==
  IF ~IsCh(Tok(ts, q), "(") THEN log_error("Expected ( in prototype", q)
  ELSE prototype_args(fn_name, kind, precedence, ts, proto_arg_names(ts, q, <<>>))

parse_prototype(ts, p) ==
  CASE Tok(ts, p).k = "identifier" ->
         prototype_paren(Tok(ts, p).s, 0, DefaultPrecedence, ts, p + 1)
    [] Tok(ts, p).k = "binary" ->
         IF Tok(ts, p + 1).k = "number"
         THEN IF Tok(ts, p + 1).v < MinPrecedence \/ Tok(ts, p + 1).v > MaxPrecedence
              THEN log_error("Invalid precedence: must be 1..100", p + 1)
              ELSE prototype_paren("binary" \o Tok(ts, p).s, 2, Tok(ts, p + 1).v, ts, p + 2)
         ELSE prototype_paren("binary" \o Tok(ts, p).s, 2, DefaultPrecedence, ts, p + 1)
    [] OTHER -> log_error("Expected function name in prototype", p)

definition_body(proto, E) ==
  IF ~E.ok THEN E ELSE POk(FunctionAST(proto.node, E.node), E.pos)

definition_proto(bp, ts, proto) ==
  IF ~proto.ok THEN proto
  ELSE definition_body(proto, parse_expression(bp, ts, proto.pos))

parse_definition(bp, ts, p) == definition_proto(bp, ts, parse_prototype(ts, p + 1))

parse_extern(ts, p) == parse_prototype(ts, p + 1)

top_level_expression_wrap(E) ==
  IF ~E.ok THEN E
  ELSE POk(FunctionAST(PrototypeAST("__anon_expr", <<>>, FALSE, 0), E.node), E.pos)

parse_top_level_expression(bp, ts, p) ==
  top_level_expression_wrap(parse_expression(bp, ts, p))

\* ------------------------------------------------------------------ IR
\* A Value*: a constant, an argument of the function being built, the result
\* of an instruction (n is the instruction's identity), or the null pointer.
Val(v, n) == [v |-> v, n |-> n]
ConstantFP(n) == Val("const", n)
ArgV(i) == Val("arg", i)
RegV(id) == Val("reg", id)
NullV == Val("null", 0)

\* std::map lookups: a missing key reads as the null pointer
Lookup(m, k) == IF k \in DOMAIN m THEN m[k] ELSE NullV
Put(m, k, v) == [x \in (DOMAIN m) \cup {k} |-> IF x = k THEN v ELSE m[x]]
EmptyMap == [x \in {} |-> NullV]

\* A function of the module: a declaration has no blocks.  LLVM renames a
\* function created under a name the module already holds (foo.1), and
\* such a function is never found by name again.
Fn(name, renamed, args, blocks) ==
  [name |-> name, renamed |-> renamed, args |-> args, blocks |-> blocks]
Block(name, inF) == [name |-> name, insts |-> <<>>, inF |-> inF]

\* Module::getFunction: the index of the function of that name, 0 for none
getFunction(mod, name) ==
  IF \E i \in 1..Len(mod) : mod[i].name = name /\ ~mod[i].renamed
  THEN CHOOSE i \in 1..Len(mod) : mod[i].name = name /\ ~mod[i].renamed
  ELSE 0

\* The state lowering works on: the module, the registry, the blocks of the
\* function being built, the builder's insert block, NamedValues, the next
\* instruction identity, the diagnostics, and the record of the codegen
\* calls made (enter / ok / fail of every node, and every declaration
\* PrototypeAST::codegen created, each with the instruction count so far).
LowerState(mod, protos, named) ==
  [mod |-> mod, protos |-> protos, blocks |-> <<>>, cur |-> 0, named |-> named,
   nid |-> 1, diags |-> <<>>, log |-> <<>>]

Ev(e, node, st) == [ev |-> e, node |-> node, nid |-> st.nid]
Enter(st, node) == [st EXCEPT !.log = Append(@, Ev("enter", node, st))]
Return(st, node, val) ==
  [st |-> [st EXCEPT !.log = Append(@, Ev(IF val = NullV THEN "fail" ELSE "ok", node, st))],
   val |-> val]
log_error_v(st, node, msg) ==
  Return([st EXCEPT !.diags = Append(@, msg)], node, NullV)

\* ---- IRBuilder
Emit(st, inst) == [st EXCEPT !.blocks[st.cur].insts = Append(@, inst)]
CreateBlock(st, name, inF) == [st EXCEPT !.blocks = Append(@, Block(name, inF))]
InsertBlock(st, b) == [st EXCEPT !.blocks[b].inF = TRUE]
SetInsertPoint(st, b) == [st EXCEPT !.cur = b]
CreateBr(st, dest) == Emit(st, [op |-> "br", dest |-> dest])
CreateCondBr(st, c, t, f) == Emit(st, [op |-> "condbr", cond |-> c, t |-> t, f |-> f])
CreateRet(st, v) == Emit(st, [op |-> "ret", val |-> v])

\* the arithmetic of the target on two constants
Fold(op, a, b) ==
  CASE op = "fadd" -> a + b
    [] op = "fsub" -> a - b
    [] op = "fmul" -> a * b
    [] op = "fcmp_ult" -> IF a < b THEN 1 ELSE 0
    [] op = "fcmp_one" -> IF a # b THEN 1 ELSE 0

\* CreateFAdd / CreateFSub / CreateFMul / CreateFCmpULT / CreateFCmpONE: the
\* builder folds an operation on two constants and emits nothing for it
CreateBinOp(st, op, l, r) ==
  IF l.v = "const" /\ r.v = "const"
  THEN [st |-> st, val |-> ConstantFP(Fold(op, l.n, r.n))]
  ELSE [st |-> [Emit(st, [op |-> op, id |-> st.nid, l |-> l, r |-> r])
                  EXCEPT !.nid = @ + 1],
        val |-> RegV(st.nid)]

\* CreateUIToFP on the result c of the comparison just built
CreateUIToFP(c) ==
  IF c.val.v = "const" THEN c
  ELSE [st |-> [Emit(c.st, [op |-> "uitofp", id |-> c.st.nid, l |-> c.val])
                  EXCEPT !.nid = @ + 1],
        val |-> RegV(c.st.nid)]

CreateCall(st, callee, args) ==
  [st |-> [Emit(st, [op |-> "call", id |-> st.nid, callee |-> callee, args |-> args])
             EXCEPT !.nid = @ + 1],
   val |-> RegV(st.nid)]

CreatePHI(st) ==
  [st |-> [Emit(st, [op |-> "phi", id |-> st.nid, incoming |-> <<>>])
             EXCEPT !.nid = @ + 1],
   val |-> RegV(st.nid)]

\* PHINode::addIncoming on the phi of identity id
addIncoming(st, id, v, bb) ==
  [st EXCEPT !.blocks =
     [b \in 1..Len(st.blocks) |->
        [st.blocks[b] EXCEPT !.insts =
           [i \in 1..Len(st.blocks[b].insts) |->
              LET I == st.blocks[b].insts[i] IN
              IF I.op = "phi" /\ I.id = id
              THEN [I EXCEPT !.incoming = Append(@, [val |-> v, bb |-> bb])]
              ELSE I]]]]

\* SplitBlockAndInsertIfThen(cond, branch, false), branch being the last
\* instruction of the insert block: the block keeps what precedes branch and
\* ends with a conditional branch, a new tail block receives branch, and a new
\* then-block is created whose terminator (a branch to the tail) is returned.
\* The caller moves the builder to the then-block and erases that terminator.
SplitTail(st) == Len(st.blocks) + 1
SplitThen(st) == Len(st.blocks) + 2
SplitBlockAndInsertIfThen(st, cond) ==
  [st |-> CreateCondBr(
            [st EXCEPT !.blocks =
               Append(Append([@ EXCEPT ![st.cur].insts = SubSeq(@, 1, Len(@) - 1)],
                             [name |-> "loop.split",
                              insts |-> <<st.blocks[st.cur].insts[Len(st.blocks[st.cur].insts)]>>,
                              inF |-> TRUE]),
                      [name |-> "loop.then",
                       insts |-> <<[op |-> "br", dest |-> SplitTail(st)]>>, inF |-> TRUE])],
            cond, SplitThen(st), SplitTail(st)),
   then_bb |-> SplitThen(st)]

eraseFromParent_inst(st, b) ==
  [st EXCEPT !.blocks[b].insts = SubSeq(@, 1, Len(@) - 1)]

\* ---- codegen.cpp
\* PrototypeAST::codegen: a new declaration in the current module
PrototypeAST_codegen(st, proto) ==
  [st |-> [st EXCEPT !.mod = Append(@, Fn(proto.Name, getFunction(st.mod, proto.Name) # 0,
                                          proto.Args, <<>>)),
                     !.log = Append(@, Ev("declare", proto, st))],
   f |-> Len(st.mod) + 1]

get_function(st, name) ==
  IF getFunction(st.mod, name) # 0 THEN [st |-> st, f |-> getFunction(st.mod, name)]
  ELSE IF name \in DOMAIN st.protos THEN PrototypeAST_codegen(st, st.protos[name])
  ELSE [st |-> st, f |-> 0]

RECURSIVE codegen(_, _)
RECURSIVE codegen_args(_, _, _, _)
RECURSIVE BinaryExprAST_codegen(_, _)
RECURSIVE CallExprAST_codegen(_, _)
RECURSIVE IfExprAST_codegen(_, _)
RECURSIVE ForExpr_codegen(_, _)
RECURSIVE Binary_lhs(_, _)
RECURSIVE Call_callee(_, _)
RECURSIVE args_next(_, _, _, _)
RECURSIVE If_condition(_, _)
RECURSIVE If_branch(_, _)
RECURSIVE If_then(_, _, _)
RECURSIVE For_start(_, _)
RECURSIVE For_header(_, _, _, _, _)
RECURSIVE For_split(_, _, _, _, _)
RECURSIVE For_body(_, _, _, _, _, _)

\* a codegen that returns what its last builder call r produced
ReturnOf(node, r) == Return(r.st, node, r.val)

NumberExprAST_codegen(st, node) == Return(Enter(st, node), node, ConstantFP(node.Val))

Variable_lookup(s0, node) ==
  IF Lookup(s0.named, node.Name) = NullV THEN log_error_v(s0, node, "Unknown variable name")
  ELSE Return(s0, node, Lookup(s0.named, node.Name))

VariableExprAST_codegen(st, node) == Variable_lookup(Enter(st, node), node)

\* the switch on Op of BinaryExprAST::codegen, both operands lowered
BinaryOperator(st, node, L, R) ==
  CASE node.Op = "+" -> CreateBinOp(st, "fadd", L, R)
    [] node.Op = "-" -> CreateBinOp(st, "fsub", L, R)
    [] node.Op = "*" -> CreateBinOp(st, "fmul", L, R)
    [] node.Op = "<" -> CreateUIToFP(CreateBinOp(st, "fcmp_ult", L, R))
    [] OTHER -> [st |-> [st EXCEPT !.diags = Append(@, "invalid binary operator")],
                 val |-> NullV]

\* `if (!L || !R) return nullptr;` and the switch
Binary_rhs(node, L, R) ==
  IF L.val = NullV \/ R.val = NullV THEN Return(R.st, node, NullV)
  ELSE ReturnOf(node, BinaryOperator(R.st, node, L.val, R.val))

\* the right operand lowered only when the left one lowered
Binary_lhs_ShortCircuit(node, L) ==
  IF L.val = NullV THEN Return(L.st, node, NullV)
  ELSE Binary_rhs(node, L, codegen(L.st, node.RHS))

\* `Value *R = RHS->codegen();`, whatever L is
Binary_lhs(node, L) == Binary_rhs(node, L, codegen(L.st, node.RHS))

BinaryExprAST_codegen(st, node) == Binary_lhs(node, codegen(Enter(st, node), node.LHS))

\* the argument loop of CallExprAST::codegen
args_next(args, i, vals, a) ==
  IF a.val = NullV THEN [st |-> a.st, ok |-> FALSE, vals |-> vals]
  ELSE codegen_args(a.st, args, i + 1, Append(vals, a.val))

codegen_args(st, args, i, vals) ==
  IF i > Len(args) THEN [st |-> st, ok |-> TRUE, vals |-> vals]
  ELSE args_next(args, i, vals, codegen(st, args[i]))

Call_args(node, a) ==
  IF ~a.ok THEN Return(a.st, node, NullV)
  ELSE ReturnOf(node, CreateCall(a.st, node.Callee, a.vals))

\* the parameter count the call's arguments are checked against
arg_size(g) == Len(g.st.mod[g.f].args)

Call_callee(node, g) ==
  IF g.f = 0
  THEN log_error_v(g.st, node, "Unknown function " \o node.Callee \o " referenced")
  ELSE IF arg_size(g) # Len(node.Args)
  THEN log_error_v(g.st, node, "Incorrect number of arguments for function " \o node.Callee)
  ELSE Call_args(node, codegen_args(g.st, node.Args, 1, <<>>))

CallExprAST_codegen(st, node) == Call_callee(node, get_function(Enter(st, node), node.Callee))

\* IfExprAST::codegen, step by step.  then_bb is the first of the three blocks
\* it creates: then_bb, else_bb = then_bb + 1, fin_bb = then_bb + 2.
If_phi(node, then_val, then_phi_bb, else_val, else_phi_bb, ret_val) ==
  Return(addIncoming(addIncoming(ret_val.st, ret_val.val.n, then_val, then_phi_bb),
                     ret_val.val.n, else_val, else_phi_bb),
         node, ret_val.val)

If_else(node, then_bb, then_val, then_phi_bb, else_val) ==
  IF else_val.val = NullV THEN Return(else_val.st, node, NullV)
  ELSE If_phi(node, then_val, then_phi_bb, else_val.val, else_val.st.cur,
              CreatePHI(SetInsertPoint(InsertBlock(CreateBr(else_val.st, then_bb + 2),
                                                   then_bb + 2),
                                       then_bb + 2)))

If_then(node, then_bb, then_val) ==
  IF then_val.val = NullV THEN Return(then_val.st, node, NullV)
  ELSE If_else(node, then_bb, then_val.val, then_val.st.cur,
               codegen(SetInsertPoint(InsertBlock(CreateBr(then_val.st, then_bb + 2),
                                                  then_bb + 1),
                                      then_bb + 1),
                       node.Else))

If_blocks(st) ==
  CreateBlock(CreateBlock(CreateBlock(st, "then", TRUE), "else", FALSE), "finish", FALSE)

If_branch(node, bool_cond) ==
  If_then(node, Len(bool_cond.st.blocks) + 1,
          codegen(SetInsertPoint(CreateCondBr(If_blocks(bool_cond.st), bool_cond.val,
                                              Len(bool_cond.st.blocks) + 1,
                                              Len(bool_cond.st.blocks) + 2),
                                 Len(bool_cond.st.blocks) + 1),
                  node.Then))

If_condition(node, cond_val) ==
  IF cond_val.val = NullV THEN Return(cond_val.st, node, NullV)
  ELSE If_branch(node, CreateBinOp(cond_val.st, "fcmp_one", cond_val.val, ConstantFP(0)))

IfExprAST_codegen(st, node) ==
  If_condition(node, codegen(Enter(st, node), node.Condition))

\* ForExpr::codegen, step by step.  loop_bb is the first of the two blocks it
\* creates (end_bb = loop_bb + 1), var the loop's phi, old_val the binding the
\* loop variable shadows, split_bb the block SplitBlockAndInsertIfThen returns.

\* the block ForExpr::codegen names in the second entry of the loop's phi
BackEdgeBlock(split_bb, st) == split_bb

For_latch(node, loop_bb, var, old_val, split_bb, next) ==
  Return([SetInsertPoint(
            InsertBlock(CreateBr(addIncoming(next.st, var.n, next.val,
                                             BackEdgeBlock(split_bb, next.st)),
                                 loop_bb),
                        loop_bb + 1),
            loop_bb + 1)
            EXCEPT !.named = Put(@, node.VarName, old_val)],
         node, ConstantFP(0))

For_step(node, loop_bb, var, old_val, split_bb, step) ==
  IF step.val = NullV THEN Return(step.st, node, NullV)
  ELSE For_latch(node, loop_bb, var, old_val, split_bb,
                 CreateBinOp(step.st, "fadd", var, step.val))

For_body(node, loop_bb, var, old_val, split_bb, body) ==
  IF body.val = NullV THEN Return(body.st, node, NullV)
  ELSE For_step(node, loop_bb, var, old_val, split_bb, codegen(body.st, node.Step))

For_split(node, loop_bb, var, old_val, split) ==
  For_body(node, loop_bb, var, old_val, split.then_bb,
           codegen(eraseFromParent_inst(SetInsertPoint(split.st, split.then_bb),
                                        split.then_bb),
                   node.Body))

For_test(node, loop_bb, bool_cond) ==
  SplitBlockAndInsertIfThen(CreateBr(bool_cond.st, loop_bb + 1), bool_cond.val)

For_condition(node, loop_bb, var, old_val, condition) ==
  IF condition.val = NullV THEN Return(condition.st, node, NullV)
  ELSE For_split(node, loop_bb, var, old_val,
                 For_test(node, loop_bb,
                          CreateBinOp(condition.st, "fcmp_one", condition.val,
                                      ConstantFP(0))))

For_header(node, loop_bb, start_val, first_bb, var) ==
  For_condition(node, loop_bb, var.val, Lookup(var.st.named, node.VarName),
                codegen([addIncoming(var.st, var.val.n, start_val, first_bb)
                           EXCEPT !.named = Put(@, node.VarName, var.val)],
                        node.Condition))

For_blocks(st) == CreateBlock(CreateBlock(st, "loop", TRUE), "endfor", FALSE)

For_start(node, start) ==
  IF start.val = NullV THEN Return(start.st, node, NullV)
  ELSE For_header(node, Len(start.st.blocks) + 1, start.val, start.st.cur,
                  CreatePHI(SetInsertPoint(CreateBr(For_blocks(start.st),
                                                    Len(start.st.blocks) + 1),
                                           Len(start.st.blocks) + 1)))

ForExpr_codegen(st, node) == For_start(node, codegen(Enter(st, node), node.Start))

codegen(st, node) ==
  CASE node.tag = "Number" -> NumberExprAST_codegen(st, node)
    [] node.tag = "Variable" -> VariableExprAST_codegen(st, node)
    [] node.tag = "Binary" -> BinaryExprAST_codegen(st, node)
    [] node.tag = "Call" -> CallExprAST_codegen(st, node)
    [] node.tag = "If" -> IfExprAST_codegen(st, node)
    [] node.tag = "For" -> ForExpr_codegen(st, node)

\* the bindings FunctionAST::codegen records for the arguments of F
ArgBindings(args) ==
  [a \in {args[i] : i \in 1..Len(args)} |->
     ArgV(CHOOSE i \in 1..Len(args) :
            args[i] = a /\ \A j \in 1..Len(args) : args[j] = a => j <= i)]

RemoveAt(seq, i) == SubSeq(seq, 1, i - 1) \o SubSeq(seq, i + 1, Len(seq))
NoFn == Fn("", FALSE, <<>>, <<>>)

\* FunctionAST::codegen.  The result is the lowering state it leaves (module,
\* registry, NamedValues, diagnostics), whether it returned a function, and
\* that function as the builder left it (verifyFunction's verdict is not
\* read, and the passes of TheFPM are the Backend's).  redefined marks the
\* branch that reports a redefinition: it reads Proto after Proto was moved
\* into the registry.
Function_finish(F, s3) ==
  [ok |-> TRUE, st |-> [s3 EXCEPT !.mod[F].blocks = s3.blocks],
   fn |-> [s3.mod[F] EXCEPT !.blocks = s3.blocks], redefined |-> FALSE]

Function_body(F, ret_value) ==
  IF ret_value.val # NullV
  THEN Function_finish(F, CreateRet(ret_value.st, ret_value.val))
  ELSE [ok |-> FALSE, st |-> [ret_value.st EXCEPT !.mod = RemoveAt(@, F)],
        fn |-> NoFn, redefined |-> FALSE]

\* the names bound while the body is lowered: those of the arguments of F
Function_scope(st, F) == ArgBindings(st.mod[F].args)

Function_entry(fn, g) ==
  IF g.f = 0 THEN [ok |-> FALSE, st |-> g.st, fn |-> NoFn, redefined |-> FALSE]
  ELSE IF g.st.mod[g.f].blocks # <<>>
  THEN [ok |-> FALSE,
        st |-> [g.st EXCEPT !.diags =
                  Append(@, "Function " \o fn.Proto.Name \o " has already been defined")],
        fn |-> NoFn, redefined |-> TRUE]
  ELSE Function_body(g.f,
         codegen([SetInsertPoint(CreateBlock(g.st, "entry", TRUE), 1)
                    EXCEPT !.named = Function_scope(g.st, g.f)],
                 fn.Body))

FunctionAST_codegen(mod, protos, named, fn) ==
  Function_entry(fn, get_function(LowerState(mod, Put(protos, fn.Proto.Name, fn.Proto), named),
                                  fn.Proto.Name))

\* ------------------------------------------------------------------ run
\* What running a lowered function does (the call fp() on __anon_expr): the
\* blocks are walked from the entry block, a phi takes the value of the entry
\* that names the block control came from.  A phi with no entry for that
\* block has no defined value: the run is undefined from there on.  The walk
\* records the blocks entered and the value every phi took.
ExecState ==
  [bb |-> 1, prev |-> 0, pos |-> 1, regs |-> [x \in {} |-> 0], status |-> "run",
   value |-> 0, visits |-> <<1>>, phis |-> <<>>, fuel |-> MaxSteps]

ValueOf(e, v) ==
  CASE v.v = "const" -> v.n
    [] v.v = "reg" -> e.regs[v.n]
    [] OTHER -> 0

SetReg(e, id, val) == [e EXCEPT !.regs = Put(@, id, val), !.pos = @ + 1]

Jump(e, dest) ==
  IF e.fuel = 0 THEN [e EXCEPT !.status = "timeout"]
  ELSE [e EXCEPT !.prev = e.bb, !.bb = dest, !.pos = 1, !.fuel = @ - 1,
                 !.visits = Append(@, dest)]

\* the entries of a phi that name the block control came from
IncomingFrom(I, bb) == {k \in 1..Len(I.incoming) : I.incoming[k].bb = bb}

ExecPhi(e, I, from) ==
  IF from = {} THEN [e EXCEPT !.status = "undef"]
  ELSE [SetReg(e, I.id, ValueOf(e, I.incoming[CHOOSE k \in from : \A j \in from : k <= j].val))
          EXCEPT !.phis = Append(@, [id |-> I.id,
                     val |-> ValueOf(e, I.incoming[CHOOSE k \in from : \A j \in from : k <= j].val)])]

ExecInst(e, I) ==
  CASE I.op = "phi" -> ExecPhi(e, I, IncomingFrom(I, e.prev))
    [] I.op = "br" -> Jump(e, I.dest)
    [] I.op = "condbr" -> Jump(e, IF ValueOf(e, I.cond) # 0 THEN I.t ELSE I.f)
    [] I.op = "ret" -> [e EXCEPT !.status = "ret", !.value = ValueOf(e, I.val)]
    [] I.op = "call" -> [e EXCEPT !.status = "backend"]
    [] I.op = "uitofp" -> SetReg(e, I.id, ValueOf(e, I.l))
    [] OTHER -> SetReg(e, I.id, Fold(I.op, ValueOf(e, I.l), ValueOf(e, I.r)))

RECURSIVE Exec(_, _)
Exec(fn, e) ==
  IF e.status # "run" THEN e
  ELSE IF e.pos > Len(fn.blocks[e.bb].insts) THEN [e EXCEPT !.status = "undef"]
  ELSE Exec(fn, ExecInst(e, fn.blocks[e.bb].insts[e.pos]))

NotRun == [ExecState EXCEPT !.status = "none", !.visits = <<>>]

\* ------------------------------------------------------------------ session
\* What the last step of the read-eval loop did: the handler, the tokens it
\* consumed, the parse result, the lowering result, the unit handed to the
\* JIT (if any), the run of the anonymous expression, and the module,
\* registry and JIT symbols the handler started from.
LastRec(h, tokens, parsed, node, perrs, lowered, diags, log, fn, handoff, unit, run) ==
  [handler |-> h, tokens |-> tokens, parsed |-> parsed, node |-> node, perrs |-> perrs,
   lowered |-> lowered, diags |-> diags, log |-> log, fn |-> fn,
   handoff |-> handoff, unit |-> unit, run |-> run,
   preModule |-> TheModule, preProtos |-> FunctionProtos, preJIT |-> TheJIT,
   prePrecedence |-> BINOP_PRECEDENCE]
Idle(h, tokens) ==
  LastRec(h, tokens, FALSE, nullptr, <<>>, FALSE, <<>>, <<>>, NoFn, FALSE, <<>>, NotRun)

\* the names a unit defines (functions with a body)
Defined(unit) == {unit[i].name : i \in {j \in 1..Len(unit) : unit[j].blocks # <<>>}}

\* the tokens the lexer has produced and the parser has not consumed yet,
\* cur_tok first
Stream == <<cur_tok>> \o input
\* get_next_token blocks until the token is typed or the input is closed
Available(endpos) == endpos <= Len(Stream) \/ closed
Advance(endpos) ==
  /\ Available(endpos)
  /\ cur_tok' = Tok(Stream, endpos)
  /\ input' = SubSeq(Stream, endpos + 1, Len(Stream))
\* the tokens before position endpos
Consumed(endpos) ==
  SubSeq(Stream, 1, IF endpos - 1 <= Len(Stream) THEN endpos - 1 ELSE Len(Stream))

\* a handler that leaves cur_tok where the failed parse stopped
EndOf_NoSkip(r) == r.pos

\* where a handler leaves cur_tok: after a failed parse it skips one token
EndOf(r) == IF r.ok THEN r.pos ELSE r.pos + 1

\* where one iteration of main_loop leaves cur_tok
IterationEnd ==
  CASE cur_tok = tok_eof -> 1
    [] cur_tok = Ch(";") -> 2
    [] cur_tok = tok_def -> EndOf(parse_definition(BINOP_PRECEDENCE, Stream, 1))
    [] cur_tok = tok_extern -> EndOf(parse_extern(Stream, 1))
    [] OTHER -> EndOf(parse_top_level_expression(BINOP_PRECEDENCE, Stream, 1))

\* the lexer is waiting for input the user has not typed yet
Starved == pc = "loop" /\ ~closed /\ IterationEnd > Len(Stream)

LoopUnchanged == UNCHANGED <<closed, nlines>>

\* case ';' of main_loop
top_level_semicolon ==
  /\ pc = "loop" /\ cur_tok = Ch(";")
  /\ Advance(2)
  /\ last' = Idle("semicolon", Consumed(2))
  /\ UNCHANGED <<pc, BINOP_PRECEDENCE, FunctionProtos, TheModule, NamedValues, TheJIT, todo>>
  /\ LoopUnchanged

\* case tok_eof of main_loop
main_loop_return ==
  /\ pc = "loop" /\ cur_tok = tok_eof
  /\ pc' = "done"
  /\ last' = Idle("eof", <<>>)
  /\ UNCHANGED <<cur_tok, input, BINOP_PRECEDENCE, FunctionProtos, TheModule,
                 NamedValues, TheJIT, todo>>
  /\ LoopUnchanged

\* a failed parse: the handler skips one token and changes nothing else
ParseFailed(h, r) ==
  /\ Advance(EndOf(r))
  /\ last' = LastRec(h, Consumed(EndOf(r)), FALSE, nullptr, r.errs, FALSE, <<>>, <<>>,
                     NoFn, FALSE, <<>>, NotRun)
  /\ UNCHANGED <<pc, BINOP_PRECEDENCE, FunctionProtos, TheModule, NamedValues, TheJIT>>

\* the module kept after a hand-off
NewModule_Kept(mod, handed) == mod

\* initialize_modules_and_managers after a hand-off: a new, empty module
NewModule(mod, handed) == IF handed THEN <<>> ELSE mod

\* TheJIT->addModule, and RT->remove() for the anonymous expression: keep says
\* whether the JIT keeps the unit
addModule(jit, unit, handed, keep) ==
  IF handed /\ keep THEN jit \cup Defined(unit) ELSE jit

\* fp(): the anonymous expression is run once its unit is in the JIT; the
\* functions it calls are the Backend's to resolve and run
HasCall(fn) ==
  \E b \in 1..Len(fn.blocks) : \E i \in 1..Len(fn.blocks[b].insts) :
     fn.blocks[b].insts[i].op = "call"
RunAnon(c, keep) ==
  IF ~c.ok \/ keep THEN NotRun
  ELSE IF HasCall(c.fn) THEN [NotRun EXCEPT !.status = "backend"]
  ELSE Exec(c.fn, ExecState)

\* ExitOnErr(TheJIT->addModule(...)): the unit defines a name the JIT holds
DefinedTwice(c, keep) == c.ok /\ keep /\ Defined(c.st.mod) \cap TheJIT # {}

\* where the handler leaves the process: a run of undefined behaviour, and
\* the read of the moved-from prototype, may end it; a run that does not
\* return leaves it running; ExitOnErr ends it when the JIT reports an error,
\* which is the JIT's to decide for a symbol defined twice and for the
\* callees it has to resolve
AfterRun(c, run, keep) ==
  IF c.redefined \/ run.status = "undef" THEN {"loop", "crashed"}
  ELSE IF run.status = "timeout" THEN {"running"}
  ELSE IF run.status = "backend" \/ DefinedTwice(c, keep) THEN {"loop", "exited"}
  ELSE {"loop"}

\* the handler once codegen has returned c: on success the module goes to
\* the JIT and a new module is opened
HandOff(h, r, keep, c, run) ==
  /\ Advance(r.pos)
  /\ FunctionProtos' = c.st.protos
  /\ NamedValues' = c.st.named
  /\ TheModule' = NewModule(c.st.mod, c.ok)
  /\ TheJIT' = addModule(TheJIT, c.st.mod, c.ok, keep)
  /\ pc' \in AfterRun(c, run, keep)
  /\ last' = LastRec(h, Consumed(r.pos), TRUE, r.node, <<>>, c.ok, c.st.diags, c.st.log,
                     c.fn, c.ok, IF c.ok THEN c.st.mod ELSE <<>>, run)
  /\ UNCHANGED BINOP_PRECEDENCE

Lowered(h, r, keep, c) == \E run \in {RunAnon(c, keep)} : HandOff(h, r, keep, c, run)

\* a parsed definition (or anonymous expression): lowered, handed off, run
LowerAndHandOff(h, r, keep) ==
  \E c \in {FunctionAST_codegen(TheModule, FunctionProtos, NamedValues, r.node)} :
     Lowered(h, r, keep, c)

Handled(h, r, keep) ==
  IF r.ok THEN LowerAndHandOff(h, r, keep) ELSE ParseFailed(h, r)

handle_definition ==
  /\ pc = "loop" /\ cur_tok = tok_def
  /\ \E r \in {parse_definition(BINOP_PRECEDENCE, Stream, 1)} : Handled("definition", r, TRUE)
  /\ UNCHANGED todo
  /\ LoopUnchanged

\* the declaration stays in the current module; the registry records it
Declared(r, c) ==
  /\ Advance(r.pos)
  /\ TheModule' = c.st.mod
  /\ FunctionProtos' = Put(FunctionProtos, r.node.Name, r.node)
  /\ last' = LastRec("extern", Consumed(r.pos), TRUE, r.node, <<>>, TRUE, <<>>, c.st.log,
                     c.st.mod[c.f], FALSE, <<>>, NotRun)
  /\ UNCHANGED <<pc, BINOP_PRECEDENCE, NamedValues, TheJIT>>

Extern_parsed(r) ==
  IF r.ok
  THEN \E c \in {PrototypeAST_codegen(LowerState(TheModule, FunctionProtos, NamedValues),
                                      r.node)} : Declared(r, c)
  ELSE ParseFailed("extern", r)

handle_extern ==
  /\ pc = "loop" /\ cur_tok = tok_extern
  /\ \E r \in {parse_extern(Stream, 1)} : Extern_parsed(r)
  /\ UNCHANGED todo
  /\ LoopUnchanged

handle_top_level_expression ==
  /\ pc = "loop" /\ cur_tok \notin {tok_eof, Ch(";"), tok_def, tok_extern}
  /\ \E r \in {parse_top_level_expression(BINOP_PRECEDENCE, Stream, 1)} :
        Handled("expression", r, FALSE)
  /\ UNCHANGED todo
  /\ LoopUnchanged

\* ------------------------------------------------------------------ input
id(s) == tok_identifier(s)
num(v) == tok_number(v)
LP == Ch("(")
RP == Ch(")")
Comma == Ch(",")
Semi == Ch(";")

\* the lines a user types in a session, as the lexer tokenizes them
DefFoo == <<tok_def, id("foo"), LP, id("a"), RP, id("a"), Semi>>
ExternFooA == <<tok_extern, id("foo"), LP, id("a"), RP, Semi>>
ExternFooX == <<tok_extern, id("foo"), LP, id("x"), RP, Semi>>
ExternBarA == <<tok_extern, id("bar"), LP, id("a"), RP, Semi>>
ExternBarAB == <<tok_extern, id("bar"), LP, id("a"), id("b"), RP, Semi>>
CallBar1 == <<id("bar"), LP, num(1), RP, Semi>>
CallBar2 == <<id("bar"), LP, num(1), Comma, num(2), RP, Semi>>
DefBinaryOr == <<tok_def, tok_binary("|"), num(5), LP, id("a"), id("b"), RP, id("a"), Semi>>
OrExpr == <<num(1), Ch("|"), num(0), Ch("|"), num(1), Semi>>
AddMul == <<num(1), Ch("+"), num(2), Ch("*"), num(3), Semi>>
UnknownPlusCall == <<id("y"), Ch("+"), id("bar"), LP, num(1), RP, Semi>>
LoopLine == <<tok_for, id("i"), Ch("="), num(1), Comma, id("i"), Ch("<"), num(3), Comma,
              num(1), tok_do, id("i"), tok_end, Semi>>
NestedLoopLine == <<tok_for, id("i"), Ch("="), num(1), Comma, id("i"), Ch("<"), num(3), Comma,
                    num(1), tok_do, tok_if, id("i"), tok_then, num(1), tok_else, num(2),
                    tok_end, Semi>>
BadProto == <<tok_def, id("foo"), LP, num(1), Semi>>
BadExtern == <<tok_extern, tok_binary("|"), num(200), LP, id("a"), id("b"), RP, Semi>>

Menu == {DefFoo, ExternFooA, ExternFooX, ExternBarA, ExternBarAB, CallBar1, CallBar2,
         DefBinaryOr, OrExpr, AddMul, UnknownPlusCall, LoopLine, NestedLoopLine, BadProto,
         BadExtern}

\* the user types a line while the lexer waits for input
TypeLine ==
  /\ Starved /\ nlines < MaxLines
  /\ \E line \in Menu : input' = input \o line
  /\ nlines' = nlines + 1
  /\ UNCHANGED <<cur_tok, closed, pc, BINOP_PRECEDENCE, FunctionProtos, TheModule,
                 NamedValues, TheJIT, last, todo>>

\* the user closes the input while the lexer waits
CloseInput ==
  /\ Starved
  /\ closed' = TRUE
  /\ UNCHANGED <<cur_tok, input, pc, nlines, BINOP_PRECEDENCE, FunctionProtos, TheModule,
                 NamedValues, TheJIT, last, todo>>

\* main(): a JIT, an empty module, the first token primed
InitEnv ==
  /\ pc = "loop"
  /\ BINOP_PRECEDENCE = InitialPrecedence
  /\ TheModule = <<>>
  /\ NamedValues = EmptyMap
  /\ last = [handler |-> "init", parsed |-> FALSE, node |-> nullptr, perrs |-> <<>>,
             lowered |-> FALSE, diags |-> <<>>, log |-> <<>>, fn |-> NoFn,
             handoff |-> FALSE, unit |-> <<>>, run |-> NotRun, tokens |-> <<>>,
             preModule |-> <<>>, preProtos |-> EmptyMap, preJIT |-> {},
             prePrecedence |-> InitialPrecedence]

Init ==
  /\ InitEnv
  /\ FunctionProtos = EmptyMap
  /\ TheJIT = {}
  /\ todo = nullptr
  /\ \/ \E line \in Menu :
          /\ cur_tok = Head(line) /\ input = Tail(line)
          /\ closed = FALSE /\ nlines = 1
     \/ cur_tok = tok_eof /\ input = <<>> /\ closed = TRUE /\ nlines = 0

Next ==
  \/ top_level_semicolon
  \/ handle_definition
  \/ handle_extern
  \/ handle_top_level_expression
  \/ main_loop_return
  \/ TypeLine
  \/ CloseInput

Spec == Init /\ [][Next]_vars

\* ------------------------------------------------------------------ parse_expression on x a y b z
\* every line `x a y b z ;` over two primaries per place and the four
\* operators of the table
BuiltinOps == {"<", "+", "-", "*"}
ExprLines ==
  {<<x, Ch(a), y, Ch(b), z, Semi>> :
     x \in {num(1), id("x")}, a \in BuiltinOps, y \in {num(2), id("y")},
     b \in BuiltinOps, z \in {num(3), id("z")}}

InitParse ==
  /\ InitEnv
  /\ FunctionProtos = EmptyMap
  /\ TheJIT = {}
  /\ todo = nullptr
  /\ \E line \in ExprLines : cur_tok = Head(line) /\ input = Tail(line)
  /\ closed = TRUE /\ nlines = 1

NextParse ==
  \/ handle_top_level_expression
  \/ top_level_semicolon
  \/ main_loop_return

SpecParse == InitParse /\ [][NextParse]_vars

\* ------------------------------------------------------------------ codegen on a drawn expression
\* The expressions lowered: binary operations over operands that lower and
\* operands that fail, loops over plain and nested bodies, conditionals over
\* plain and nested branches.
Operands ==
  {NumberExprAST(1), VariableExprAST("y"),
   CallExprAST("bar", <<NumberExprAST(1)>>), CallExprAST("zed", <<NumberExprAST(1)>>)}
BinaryInputs ==
  {BinaryExprAST(op, l, r) : op \in {"+", "<", "|"}, l \in Operands, r \in Operands}

Less(v, n) == BinaryExprAST("<", VariableExprAST(v), NumberExprAST(n))
InnerLoop ==
  ForExpr("j", NumberExprAST(1), Less("j", 2), NumberExprAST(1), VariableExprAST("j"))
InnerIf(c) == IfExprAST(c, NumberExprAST(1), NumberExprAST(2))
LoopBodies ==
  {VariableExprAST("i"), NumberExprAST(7),
   BinaryExprAST("+", VariableExprAST("i"), NumberExprAST(1)),
   InnerIf(VariableExprAST("i")), InnerLoop}
LoopSteps == {NumberExprAST(1), NumberExprAST(2), InnerIf(NumberExprAST(1))}
LoopInputs ==
  {ForExpr("i", NumberExprAST(s), Less("i", e), step, body) :
     s \in {1, 5}, e \in {1, 5}, step \in LoopSteps, body \in LoopBodies}

Branches == {NumberExprAST(10), NumberExprAST(20), InnerIf(NumberExprAST(0)), InnerLoop}
IfInputs ==
  {IfExprAST(NumberExprAST(c), t, e) : c \in {0, 1}, t \in Branches, e \in Branches}

LowerInputs ==
  {FunctionAST(PrototypeAST("__anon_expr", <<>>, FALSE, 0), body) :
     body \in BinaryInputs \cup LoopInputs \cup IfInputs}

\* the registries the expression is lowered under: nothing declared; after
\* `extern bar(a); 1;`; after `def binary| 5 (a b) a; extern bar(a); 1;`
ProtoBar == PrototypeAST("bar", <<"a">>, FALSE, 0)
ProtoOr == PrototypeAST("binary|", <<"a", "b">>, TRUE, 5)
LowerEnvs ==
  {[protos |-> EmptyMap, jit |-> {}],
   [protos |-> Put(EmptyMap, "bar", ProtoBar), jit |-> {}],
   [protos |-> Put(Put(EmptyMap, "binary|", ProtoOr), "bar", ProtoBar),
    jit |-> {"binary|"}]}

InitLower ==
  /\ InitEnv
  /\ \E env \in LowerEnvs : FunctionProtos = env.protos /\ TheJIT = env.jit
  /\ todo \in LowerInputs
  /\ cur_tok = tok_eof /\ input = <<>> /\ closed = TRUE /\ nlines = 0

\* handle_top_level_expression from the point where parse_top_level_expression
\* has returned todo
lower_top_level_expression ==
  /\ pc = "loop" /\ todo # nullptr
  /\ LowerAndHandOff("expression", POk(todo, 1), FALSE)
  /\ todo' = nullptr
  /\ LoopUnchanged

NextLower == lower_top_level_expression

SpecLower == InitLower /\ [][NextLower]_vars

\* ------------------------------------------------------------------ properties
Anon(body) == FunctionAST(PrototypeAST("__anon_expr", <<>>, FALSE, 0), body)
Has(seq, x) == \E i \in 1..Len(seq) : seq[i] = x

\* the primary a single token parses to
IsPrimaryTok(t) == t.k \in {"number", "identifier"}
PrimaryOf(t) == IF t.k = "number" THEN NumberExprAST(t.v) ELSE VariableExprAST(t.s)
IsBuiltinOp(t) == t.k = "char" /\ t.s \in BuiltinOps

\* the grouping of x a y b z by the precedences of the built-in table
Grouped(x, a, y, b, z) ==
  IF InitialPrecedence[a] < InitialPrecedence[b]
  THEN BinaryExprAST(a, x, BinaryExprAST(b, y, z))
  ELSE BinaryExprAST(b, BinaryExprAST(a, x, y), z)

\* the handler has just parsed an expression of the shape x a y b z
ParsedPair ==
  /\ last.handler = "expression"
  /\ Len(last.tokens) = 5
  /\ IsPrimaryTok(last.tokens[1]) /\ IsBuiltinOp(last.tokens[2])
  /\ IsPrimaryTok(last.tokens[3]) /\ IsBuiltinOp(last.tokens[4])
  /\ IsPrimaryTok(last.tokens[5])

\* C1: every expression x a y b z over primaries and operators of the
\* built-in table parses with the higher-precedence operator grouped into the
\* operand of the lower-precedence one, and to the left on equal precedence.
C1_PrecedenceGrouping ==
  ParsedPair =>
    /\ last.parsed
    /\ last.node = Anon(Grouped(PrimaryOf(last.tokens[1]), last.tokens[2].s,
                                PrimaryOf(last.tokens[3]), last.tokens[4].s,
                                PrimaryOf(last.tokens[5])))

\* 1+2*3 has been parsed, with * grouped under the right operand of +
C1_Witness ==
  /\ ParsedPair
  /\ last.tokens = <<num(1), Ch("+"), num(2), Ch("*"), num(3)>>
  /\ last.node = Anon(BinaryExprAST("+", NumberExprAST(1),
                        BinaryExprAST("*", NumberExprAST(2), NumberExprAST(3))))

\* C2: a successfully parsed `binary` prototype sets the precedence-table
\* entry of its operator to the declared precedence, the entry persists, and
\* 1|0|1 then parses as (1|0)|1.
C2_OperatorDeclared ==
  /\ (/\ last.handler = "definition" /\ last.parsed
      /\ last.tokens[2].k = "binary")
       => /\ last.tokens[2].s \in DOMAIN BINOP_PRECEDENCE
          /\ BINOP_PRECEDENCE[last.tokens[2].s] = last.node.Proto.precedence
  /\ (/\ last.handler = "expression"
      /\ "binary|" \in DOMAIN last.preProtos
      /\ Len(last.tokens) + Len(input) + 1 >= Len(OrExpr)
      /\ SubSeq(last.tokens \o <<cur_tok>> \o input, 1, Len(OrExpr)) = OrExpr)
       => /\ last.parsed
          /\ last.node = Anon(BinaryExprAST("|",
                            BinaryExprAST("|", NumberExprAST(1), NumberExprAST(0)),
                            NumberExprAST(1)))

\* C3: a def of a name an earlier successful def already generated is
\* rejected with a redefinition diagnostic and hands no unit to the JIT; a
\* def of a name only declared so far, with the same parameters, succeeds.
C3_Redefinition ==
  (last.handler = "definition" /\ last.parsed) =>
    /\ last.node.Proto.Name \in last.preJIT =>
         /\ ~last.lowered /\ ~last.handoff
         /\ Has(last.diags, "Function " \o last.node.Proto.Name \o " has already been defined")
    /\ (/\ last.node.Proto.Name \notin last.preJIT
        /\ last.node.Proto.Name \in DOMAIN last.preProtos
        /\ last.preProtos[last.node.Proto.Name].Args = last.node.Proto.Args
        /\ last.node.Body.tag = "Variable"
        /\ Has(last.node.Proto.Args, last.node.Body.Name))
         => last.lowered /\ last.handoff

\* the codegen events of a call that lowered none of its arguments
NoArgumentLowered(log, call) ==
  \A k \in 1..Len(log) : log[k].ev = "enter" => log[k].node = call

\* C4: a call whose argument count differs from the parameter count of the
\* callee's registered prototype fails with the arity diagnostic before any
\* argument is lowered, nothing is handed off, the function is removed from
\* the module and the loop goes on.
C4_ArityMismatch ==
  (/\ last.handler = "expression" /\ last.parsed
   /\ last.node.Body.tag = "Call"
   /\ last.node.Body.Callee \in DOMAIN last.preProtos
   /\ Len(last.node.Body.Args) # Len(last.preProtos[last.node.Body.Callee].Args))
    => /\ ~last.lowered /\ ~last.handoff
       /\ Has(last.diags, "Incorrect number of arguments for function "
                             \o last.node.Body.Callee)
       /\ NoArgumentLowered(last.log, last.node.Body)
       /\ getFunction(TheModule, "__anon_expr") = 0
       /\ pc = "loop"

\* ---- the blocks of a lowered function
Terminator(blk) == blk.insts[Len(blk.insts)]
BranchesTo(blk, b) ==
  /\ blk.insts # <<>>
  /\ \/ Terminator(blk).op = "br" /\ Terminator(blk).dest = b
     \/ Terminator(blk).op = "condbr" /\ (Terminator(blk).t = b \/ Terminator(blk).f = b)
\* the blocks that branch into block b
Preds(fn, b) == {p \in 1..Len(fn.blocks) : BranchesTo(fn.blocks[p], b)}
\* the blocks a phi names
Named(phi) == {phi.incoming[k].bb : k \in 1..Len(phi.incoming)}
PhisOf(fn) ==
  UNION {{<<b, i>> : i \in {j \in 1..Len(fn.blocks[b].insts) :
                                fn.blocks[b].insts[j].op = "phi"}} :
         b \in 1..Len(fn.blocks)}

\* ---- the run of a lowered loop `for i = s, i < e, t do ...` at top level:
\* block 2 is its header, phi 1 its variable, block 5 the start of its body
TopLoop ==
  /\ last.handler = "expression" /\ last.lowered
  /\ last.node.Body.tag = "For"
  /\ last.node.Body.Start.tag = "Number"
  /\ last.node.Body.Step.tag = "Number"
  /\ last.node.Body.Condition = Less(last.node.Body.VarName, last.node.Body.Condition.RHS.Val)
Count(seq, x) == Cardinality({k \in 1..Len(seq) : seq[k] = x})
\* the number of true tests of s + k*t < e
Iterations(s, e, t) == Cardinality({k \in 0..MaxSteps : s + k * t < e})
IsVar(p) == p.id = 1
VarValues(run) ==
  [k \in 1..Len(SelectSeq(run.phis, IsVar)) |-> SelectSeq(run.phis, IsVar)[k].val]
RunsAsCounted(run, s, e, t) ==
  /\ run.status = "ret" /\ run.value = 0
  /\ Count(run.visits, 5) = Iterations(s, e, t)
  /\ \A k \in 1..Len(run.visits) : run.visits[k] = 5 => run.visits[k - 1] = 2
  /\ VarValues(run) = [k \in 1..(Iterations(s, e, t) + 1) |-> s + (k - 1) * t]

\* C5: running the blocks of a lowered loop tests the condition before every
\* iteration, runs the body once per true test with the variable taking
\* start, start+step, ..., and the loop evaluates to 0, whatever the body.
C5_LoopRuns ==
  TopLoop => RunsAsCounted(last.run, last.node.Body.Start.Val,
                           last.node.Body.Condition.RHS.Val, last.node.Body.Step.Val)

\* C7: in every lowered function every phi names exactly the blocks that
\* branch into its block, one entry per predecessor.
C7_PhiPredecessors ==
  last.lowered =>
    \A p \in PhisOf(last.fn) :
      /\ Named(last.fn.blocks[p[1]].insts[p[2]]) = Preds(last.fn, p[1])
      /\ Len(last.fn.blocks[p[1]].insts[p[2]].incoming) = Cardinality(Preds(last.fn, p[1]))

\* ---- the codegen calls of a lowering
RECURSIVE Match(_, _, _)
\* the index of the ok / fail event that closes the call entered before i,
\* depth calls being open at i
Match(log, i, depth) ==
  IF log[i].ev = "enter" THEN Match(log, i + 1, depth + 1)
  ELSE IF log[i].ev = "declare" THEN Match(log, i + 1, depth)
  ELSE IF depth = 1 THEN i
  ELSE Match(log, i + 1, depth - 1)
Close(log, k) == Match(log, k + 1, 1)
\* the calls BinaryExprAST::codegen entered at event k makes: the left
\* operand's is closed at LeftEnd, the right operand's at RightEnd
LeftEnd(log, k) == Close(log, k + 1)
RightEnd(log, k) == Close(log, LeftEnd(log, k) + 1)
BinaryCalls(log) == {k \in 1..Len(log) : log[k].ev = "enter" /\ log[k].node.tag = "Binary"}
HasCallTo(fn, callee, nargs) ==
  \E b \in 1..Len(fn.blocks) : \E i \in 1..Len(fn.blocks[b].insts) :
     /\ fn.blocks[b].insts[i].op = "call"
     /\ fn.blocks[b].insts[i].callee = callee
     /\ Len(fn.blocks[b].insts[i].args) = nargs

C9_ShortCircuit ==
  \A k \in BinaryCalls(last.log) :
    last.log[LeftEnd(last.log, k)].ev = "fail"
      => last.log[LeftEnd(last.log, k) + 1] =
           [ev |-> "fail", node |-> last.log[k].node,
            nid |-> last.log[LeftEnd(last.log, k)].nid]

\* C9 as amended: both operands are always lowered, the left before the
\* right, also when the left failed; when either fails the BinaryOp fails
\* and no instruction is emitted for the operator.
C9_BothOperandsLowered ==
  \A k \in BinaryCalls(last.log) :
    /\ last.log[k + 1].ev = "enter" /\ last.log[k + 1].node = last.log[k].node.LHS
    /\ last.log[LeftEnd(last.log, k) + 1].ev = "enter"
    /\ last.log[LeftEnd(last.log, k) + 1].node = last.log[k].node.RHS
    /\ last.log[RightEnd(last.log, k) + 1].node = last.log[k].node
    /\ (\/ last.log[LeftEnd(last.log, k)].ev = "fail"
        \/ last.log[RightEnd(last.log, k)].ev = "fail")
         => /\ last.log[RightEnd(last.log, k) + 1].ev = "fail"
            /\ last.log[RightEnd(last.log, k) + 1].nid = last.log[RightEnd(last.log, k)].nid

\* y + bar(1) has been lowered: y failed and bar was declared all the same
C9_Witness ==
  /\ last.handler = "expression"
  /\ \E k \in BinaryCalls(last.log) :
       /\ last.log[LeftEnd(last.log, k)].ev = "fail"
       /\ last.log[LeftEnd(last.log, k) + 1].ev = "enter"
       /\ \E d \in LeftEnd(last.log, k)..RightEnd(last.log, k) : last.log[d].ev = "declare"

\* C6 as stated: every successfully lowered construct, an extern too, is
\* handed to the JIT and leaves a new empty module, so a unit holds the output
\* of one construct; the registry is not reset.
C6_EveryConstructHandedOff ==
  (last.handler \in {"definition", "extern", "expression"} /\ last.lowered) =>
    /\ last.handoff /\ TheModule = <<>>
    /\ DOMAIN last.preProtos \subseteq DOMAIN FunctionProtos

Bodies(unit) == {i \in 1..Len(unit) : unit[i].blocks # <<>>}

\* C6 as amended: every successfully lowered definition and bare expression
\* is handed to the JIT, which leaves a new empty module, and the unit holds
\* exactly one function body besides the declarations made since the last
\* hand-off; a successfully lowered extern is not handed off: its declaration
\* stays in the current module; the registry is never reset.
C6_DefinitionsHandedOff ==
  /\ (last.handler \in {"definition", "expression"} /\ last.lowered) =>
       /\ last.handoff
       /\ pc = "loop" => TheModule = <<>>
       /\ Cardinality(Bodies(last.unit)) = 1
       /\ last.unit[CHOOSE i \in Bodies(last.unit) : TRUE] = last.fn
  /\ (last.handler = "extern" /\ last.lowered) =>
       /\ ~last.handoff /\ TheModule = Append(last.preModule, last.fn)
       /\ TheJIT = last.preJIT
  /\ last.handler \in {"definition", "extern", "expression"} =>
       DOMAIN last.preProtos \subseteq DOMAIN FunctionProtos

\* a definition is handed off in a unit that also holds an extern's declaration
C6_Witness ==
  /\ last.handler = "definition" /\ last.handoff
  /\ Len(last.unit) > 1 /\ Len(last.preModule) > 0
  /\ pc = "loop" /\ TheModule = <<>>

\* C10: while the body of a definition is lowered every parameter of the
\* definition's own prototype is bound: a body that is one of its own
\* parameters never fails with "Unknown variable name".
C10_OwnParametersBound ==
  (/\ last.handler = "definition" /\ last.parsed
   /\ last.node.Body.tag = "Variable"
   /\ Has(last.node.Proto.Args, last.node.Body.Name))
    => /\ ~Has(last.diags, "Unknown variable name")
       /\ last.lowered


\* ------------------------------------------------------------------ recovery
\* the parse the iteration of main_loop that starts in this state runs
TopLevelParse ==
  CASE cur_tok = tok_def -> parse_definition(BINOP_PRECEDENCE, Stream, 1)
    [] cur_tok = tok_extern -> parse_extern(Stream, 1)
    [] OTHER -> parse_top_level_expression(BINOP_PRECEDENCE, Stream, 1)

\* a step of handle_definition, handle_extern or handle_top_level_expression
\* (the user typing a line or closing the input is no step of the loop)
HandlerStep ==
  /\ pc = "loop" /\ cur_tok \notin {tok_eof, Ch(";")}
  /\ nlines' = nlines /\ closed' = closed

\* the token stream with the first n tokens discarded
Discard(ts, n) == IF n < Len(ts) THEN SubSeq(ts, n + 1, Len(ts)) ELSE <<tok_eof>>

\* the handler built nothing, lowered nothing, and left registry, unit, JIT
\* and scope alone
NothingBuilt ==
  /\ last'.node = nullptr /\ ~last'.parsed /\ ~last'.lowered /\ ~last'.handoff
  /\ last'.log = <<>> /\ last'.diags = <<>> /\ last'.fn = NoFn /\ last'.unit = <<>>
  /\ FunctionProtos' = FunctionProtos /\ TheModule' = TheModule
  /\ TheJIT' = TheJIT /\ NamedValues' = NamedValues
  /\ BINOP_PRECEDENCE' = BINOP_PRECEDENCE /\ pc' = pc

\* r.pos - 1 tokens are the ones the parse consumed
Recovered(r) ==
  IF r.ok
  THEN Stream' = Discard(Stream, r.pos - 1) /\ last'.parsed
  ELSE Stream' = Discard(Stream, r.pos) /\ NothingBuilt /\ last'.perrs = r.errs

\* C11: when the parse of a top-level construct fails, the handler builds
\* nothing, lowers nothing, leaves the prototype registry and the current
\* unit unchanged, and discards exactly one token beyond those the failed
\* parse consumed; when the parse succeeds, whether or not lowering then
\* fails, no token beyond those the parse consumed is discarded.
C11_ParseFailureRecovery == [][HandlerStep => Recovered(TopLevelParse)]_vars

\* a definition whose prototype fails after three tokens, entered with a
\* prototype registered and a declaration in the current unit: the handler
\* has skipped the offending number and the loop is at the semicolon
C11_Witness ==
  /\ last.handler = "definition" /\ ~last.parsed /\ last.perrs # <<>>
  /\ last.tokens = <<tok_def, id("foo"), LP, num(1)>>
  /\ cur_tok = Semi
  /\ last.preModule # <<>> /\ TheModule = last.preModule
  /\ last.preProtos # EmptyMap /\ FunctionProtos = last.preProtos

\* ------------------------------------------------------------------ termination
\* one iteration of main_loop
main_loop ==
  \/ top_level_semicolon
  \/ handle_definition
  \/ handle_extern
  \/ handle_top_level_expression
  \/ main_loop_return

\* an iteration of main_loop can run: the tokens it reads are there (or the
\* input is closed). This is ENABLED <<main_loop>>_vars: the guards of the
\* handlers are pc, cur_tok and Available, and every iteration changes the
\* stream or pc.
CanStep == pc = "loop" /\ Available(IterationEnd)

\* the process keeps executing main_loop: WF_vars(main_loop), with the
\* enabling condition written as the state predicate CanStep
LoopFair == []<>(~CanStep) \/ []<><<main_loop>>_vars

\* the token stream is finite and followed by end-of-input: the user types
\* at most MaxLines lines and then closes the input (weak fairness of
\* CloseInput, which is enabled exactly when the lexer waits)
InputFair == []<>(~Starved) \/ []<><<CloseInput>>_vars

\* The session run to its end. The return at end-of-input is stated with WF
\* directly.
SpecTerminate ==
  Init /\ [][Next]_vars /\ LoopFair /\ InputFair /\ WF_vars(main_loop_return)

\* the tokens of the stream that are not end-of-input
IsToken(t) == t # tok_eof
Remaining(ts) == Len(SelectSeq(ts, IsToken))

\* an iteration of main_loop that starts on a token other than end-of-input
IterationStep ==
  /\ pc = "loop" /\ cur_tok # tok_eof
  /\ nlines' = nlines /\ closed' = closed

\* C12 (progress): every iteration of main_loop that starts on a token other
\* than end-of-input consumes at least one token, whether the construct
\* parses, fails to parse, or fails to lower.
C12_IterationConsumes == [][IterationStep => Remaining(Stream') < Remaining(Stream)]_vars

\* C12 (weakened): the loop does not go on forever: it returns on
\* end-of-input, or the process ends or hangs in a handler before that.
C12_LoopEnds == <>(pc # "loop")

\* C12: for every finite token stream followed by end-of-input, the loop
\* eventually sees end-of-input and returns.
C12_LoopReturns == <>(pc = "done")
====
